---- MODULE Spec2Model ----
(***************************************************************************)
(* Conversation orchestration of the sales agent backend.                  *)
(*                                                                         *)
(* The model follows one server process:                                   *)
(*   NodeService          the node graph (services/NodeService.ts)         *)
(*   AIService            the oracle call and its fallback                 *)
(*                        (services/AIService.ts)                          *)
(*   ConversationManager  one turn: processUserInput / handleMessage       *)
(*                        (services/ConversationManager.ts)                *)
(*   WebSocketManager     the session map and the connection, message and  *)
(*                        disconnect handlers (the socket.io manager)      *)
(*   the process          it ends when a storage call left unobserved by   *)
(*                        handleMessage rejects (app.ts handles nothing)   *)
(*                                                                         *)
(* A text is a sequence of symbols.  A symbol is one character of an       *)
(* utterance, or a literal of the source taken whole ("User: ", the        *)
(* apology, ...).  Concatenation of texts is concatenation of sequences.   *)
(*                                                                         *)
(* Session objects live in a heap: the session map and the turns in flight *)
(* hold references, as the JavaScript objects do, so that replacing an     *)
(* object and changing it in place are different things.                   *)
(***************************************************************************)
EXTENDS Integers, Sequences, FiniteSets, TLC

VARIABLES
    nodes,      \* NodeService.nodes: node id -> Node
    heap,       \* the Session objects allocated so far, by reference
    sessions,   \* WebSocketManager.sessions: connection -> reference (0: no entry)
    status,     \* each connection: "new", "open", "closed"; "lost": the process ended
    turns,      \* the message handlers started so far, in flight or finished
    emitted     \* the frames emitted to each connection's socket, in order

vars == <<nodes, heap, sessions, status, turns, emitted>>

-----------------------------------------------------------------------------
(* Bounds *)

MaxConns == 2
MaxTurns == 2

Conns == 1..MaxConns

\* the longest message given to the fallback extraction, and its characters
ExtractMaxLen == 7
ExtractChars == {" ", "a", "1", "@", "."}

-----------------------------------------------------------------------------
(* Texts *)

\* The JavaScript value undefined where a text is expected; no text equals it.
Undefined == <<"#undefined">>

EmptyText == <<>>

\* `${x}` in a template literal
Str(x) == IF x = Undefined THEN <<"undefined">> ELSE x

\* x ?? ''
OrEmpty(x) == IF x = Undefined THEN EmptyText ELSE x

\* a text is truthy when it is neither undefined nor the empty string
Truthy(x) == x # Undefined /\ x # EmptyText

\* x || y
OrElse(x, y) == IF Truthy(x) THEN x ELSE y

Letter == {"a", "b", "c", "o", "x", "y", "J"}
Digit == {"1"}
LocalChar == Letter \cup Digit \cup {".", "_", "%", "+", "-"}
DomainChar == Letter \cup Digit \cup {".", "-"}
WhiteSpace == {" "}

Slice(s, i, j) == [k \in 1..(j - i + 1) |-> s[i + k - 1]]

\* String.prototype.trim
Trim(s) ==
    LET keep == {i \in 1..Len(s) : s[i] \notin WhiteSpace}
    IN  IF keep = {} THEN EmptyText
        ELSE LET lo == CHOOSE i \in keep : \A j \in keep : i <= j
                 hi == CHOOSE i \in keep : \A j \in keep : j <= i
             IN  Slice(s, lo, hi)

-----------------------------------------------------------------------------
(* extractBasicUserInputs: /[a-zA-Z0-9._%+-]+@[a-zA-Z0-9.-]+\.[a-zA-Z]{2,}/ *)

EmptyCtx == [k \in {} |-> EmptyText]

\* the position of the "@" that ends a local part starting at s, or 0
AtSign(m, s) ==
    LET cand == {i \in (s + 1)..Len(m) :
                    /\ m[i] = "@"
                    /\ \A k \in s..(i - 1) : m[k] \in LocalChar}
    IN  IF cand = {} THEN 0 ELSE CHOOSE i \in cand : TRUE

\* the positions of a "." that can end the domain part begun after the "@" at a
Dots(m, a) ==
    {d \in (a + 2)..(Len(m) - 2) :
        /\ m[d] = "."
        /\ \A k \in (a + 1)..(d - 1) : m[k] \in DomainChar
        /\ m[d + 1] \in Letter
        /\ m[d + 2] \in Letter}

\* the end of the match that starts at s, or 0: the domain part is greedy, so the
\* last admissible "." is taken, and so is the top-level part
MatchEnd(m, s) ==
    LET a == AtSign(m, s)
    IN  IF a = 0 \/ Dots(m, a) = {} THEN 0
        ELSE LET d == CHOOSE x \in Dots(m, a) : \A y \in Dots(m, a) : y <= x
                 ends == {e \in (d + 2)..Len(m) :
                             \A k \in (d + 1)..e : m[k] \in Letter}
             IN  CHOOSE e \in ends : \A f \in ends : f <= e

\* message.match(emailRegex): the leftmost match, or Undefined
EmailMatch(m) ==
    LET starts == {s \in 1..Len(m) : MatchEnd(m, s) # 0}
    IN  IF starts = {} THEN Undefined
        ELSE LET s == CHOOSE x \in starts : \A y \in starts : x <= y
             IN  Slice(m, s, MatchEnd(m, s))

\* a mutant of extractBasicUserInputs: the name is set beside the email
extractBasicUserInputsBoth(message) ==
    IF EmailMatch(message) # Undefined
    THEN [k \in {"email", "name"} |->
            IF k = "email" THEN EmailMatch(message) ELSE Trim(message)]
    ELSE IF Len(Trim(message)) > 0
         THEN [k \in {"name"} |-> Trim(message)]
         ELSE EmptyCtx

extractBasicUserInputs(message) ==
    IF EmailMatch(message) # Undefined
    THEN [k \in {"email"} |-> EmailMatch(message)]
    ELSE IF Len(Trim(message)) > 0
         THEN [k \in {"name"} |-> Trim(message)]
         ELSE EmptyCtx

-----------------------------------------------------------------------------
(* NodeService *)

NoHandler == "none"

createBasicNode(id, nextNodes) ==
    [id |-> id,
     listOfNextPossibleNodes |-> nextNodes,
     customHandlerFunction |-> NoHandler,
     consumeNodeResponse |-> FALSE]

createCustomNode(id, nextNodes, handler) ==
    [id |-> id,
     listOfNextPossibleNodes |-> nextNodes,
     customHandlerFunction |-> handler,
     consumeNodeResponse |-> FALSE]

WelcomeNext ==
    <<"collect_email", "get_products", "question_and_answer_node_for_product_details">>

\* the graph NodeService.initializeNodes builds
initializeNodes ==
    [id \in {"welcome", "collect_name"} |-> createBasicNode(id, WelcomeNext)]

\* what Map.get answers for an absent key
UndefinedNode == createBasicNode("#undefined", <<>>)

getNode(nodeId) ==
    IF nodeId \in DOMAIN nodes THEN nodes[nodeId] ELSE UndefinedNode

HasNode(nodeId) == getNode(nodeId) # UndefinedNode

-----------------------------------------------------------------------------
(* AIService.analyzeInput *)

\* array[0] of an empty array, where a node id is expected
UndefinedId == "#undefined"

FallbackConfidenceTenths == 5

OracleApology == <<"I apologize, but I encountered an issue. How can I help you?">>

\* a mutant of FallbackAnalysis: the last candidate instead of the first
FallbackAnalysisLast(currentMessage, nextPossibleNodes) ==
    [nextNodeId |-> IF Len(nextPossibleNodes) = 0 THEN UndefinedId
                    ELSE nextPossibleNodes[Len(nextPossibleNodes)],
     userInputs |-> extractBasicUserInputs(currentMessage),
     confidence |-> FallbackConfidenceTenths,
     suggestedResponse |-> OracleApology]

\* the catch branch: the analysis built without the oracle
FallbackAnalysis(currentMessage, nextPossibleNodes) ==
    [nextNodeId |-> IF Len(nextPossibleNodes) = 0 THEN UndefinedId
                    ELSE nextPossibleNodes[1],
     userInputs |-> extractBasicUserInputs(currentMessage),
     confidence |-> FallbackConfidenceTenths,
     suggestedResponse |-> OracleApology]

\* the ids of a list of node ids
Members(nodeIds) == {nodeIds[i] : i \in 1..Len(nodeIds)}

\* a mutant of analyzeInput: an id outside the candidates is replaced by the
\* first candidate
analyzeInputAmongCandidates(currentMessage, nextPossibleNodes, outcome) ==
    IF ~outcome.ok THEN FallbackAnalysis(currentMessage, nextPossibleNodes)
    ELSE IF outcome.content.nextNodeId \in Members(nextPossibleNodes)
         THEN outcome.content
         ELSE [outcome.content EXCEPT
                 !.nextNodeId = FallbackAnalysis(currentMessage,
                                                 nextPossibleNodes).nextNodeId]

\* outcome.ok: the completion came back with content that JSON.parse accepted,
\* and outcome.content is the parsed object; otherwise the call threw, came back
\* without content, or the content did not parse
analyzeInput(currentMessage, nextPossibleNodes, outcome) ==
    IF outcome.ok THEN outcome.content
    ELSE FallbackAnalysis(currentMessage, nextPossibleNodes)

-----------------------------------------------------------------------------
(* ConversationManager.processUserInput *)

\* a mutant of Spread: the keys already present win
SpreadLeft(a, b) ==
    [k \in DOMAIN a \cup DOMAIN b |-> IF k \in DOMAIN a THEN a[k] ELSE b[k]]

\* { ...a, ...b }
Spread(a, b) ==
    [k \in DOMAIN a \cup DOMAIN b |-> IF k \in DOMAIN b THEN b[k] ELSE a[k]]

\* a mutant of UpdatedSession: the reply entry is put before the user's
UpdatedSessionReplyFirst(currentSession, userInput, analysis) ==
    [sessionId |-> currentSession.sessionId,
     context |-> Spread(currentSession.context, analysis.userInputs),
     currentNodeId |-> analysis.nextNodeId,
     conversationHistory |->
        currentSession.conversationHistory
            \o << <<"AI: ">> \o Str(OrEmpty(analysis.suggestedResponse)),
                  <<"User: ">> \o Str(userInput) >>]

\* the object literal of lines 46-55
UpdatedSession(currentSession, userInput, analysis) ==
    [sessionId |-> currentSession.sessionId,
     context |-> Spread(currentSession.context, analysis.userInputs),
     currentNodeId |-> analysis.nextNodeId,
     conversationHistory |->
        currentSession.conversationHistory
            \o << <<"User: ">> \o Str(userInput),
                  <<"AI: ">> \o Str(OrEmpty(analysis.suggestedResponse)) >>]

\* a mutant of Allocate: the fields are also assigned to the object passed in
AllocateInPlace(h, ref, session) == Append([h EXCEPT ![ref] = session], session)

\* the heap once the object literal has been evaluated: one new object, at the end
Allocate(h, ref, session) == Append(h, session)

HandlerApology == <<"I'm sorry, I encountered an issue. Could you please try again?">>

\* a mutant of HandlerOf: the handler of the node the turn started from
HandlerOfCurrentNode(currentNode, updatedNode) == currentNode.customHandlerFunction

\* the handler processUserInput invokes (lines 63-65), NoHandler when none
HandlerOf(currentNode, updatedNode) == updatedNode.customHandlerFunction

\* a mutant of customHandlerCall: the handler is given the history and the
\* context of the session the turn was called with
customHandlerCallBeforeMerge(userInput, currentSession, updatedSession) ==
    [input |-> userInput,
     history |-> currentSession.conversationHistory,
     context |-> currentSession.context,
     session |-> updatedSession]

\* the arguments of the call of the custom handler (lines 70-75)
customHandlerCall(userInput, currentSession, updatedSession) ==
    [input |-> userInput,
     history |-> updatedSession.conversationHistory,
     context |-> updatedSession.context,
     session |-> updatedSession]

\* a mutant of HandlerMessage: the node's consumeNodeResponse is not looked at
HandlerMessageOracleFirst(updatedNode, analysis, result) ==
    OrElse(analysis.suggestedResponse, result)

\* messageToUser after the custom handler returned result (lines 79-83)
HandlerMessage(updatedNode, analysis, result) ==
    IF updatedNode.consumeNodeResponse THEN result
    ELSE OrElse(analysis.suggestedResponse, result)

\* messageToUser after the custom handler threw (lines 84-90)
HandlerFailureMessage == HandlerApology

-----------------------------------------------------------------------------
(* ConversationManager.handleMessage: the persistence it starts and leaves *)

\* a mutant of SaveCustomerOps: a name is enough
SaveCustomerOpsNameOnly(session) ==
    LET ctx == session.context
        name == IF "name" \in DOMAIN ctx THEN ctx["name"] ELSE Undefined
        email == IF "email" \in DOMAIN ctx THEN ctx["email"] ELSE Undefined
    IN  IF Truthy(name)
        THEN << [op |-> "saveCustomer",
                 sessionId |-> session.sessionId,
                 name |-> name,
                 email |-> email,
                 productInterest |-> Undefined] >>
        ELSE <<>>

\* saveCustomerIfComplete up to its await
SaveCustomerOps(session) ==
    LET ctx == session.context
        name == IF "name" \in DOMAIN ctx THEN ctx["name"] ELSE Undefined
        email == IF "email" \in DOMAIN ctx THEN ctx["email"] ELSE Undefined
        productInterest == IF "productInterest" \in DOMAIN ctx
                           THEN ctx["productInterest"] ELSE Undefined
    IN  IF Truthy(name) /\ Truthy(email)
        THEN << [op |-> "saveCustomer",
                 sessionId |-> session.sessionId,
                 name |-> name,
                 email |-> email,
                 productInterest |-> productInterest] >>
        ELSE <<>>

PersistenceOps(userInput, messageToUser, updatedSession) ==
    << [op |-> "createMessage", type |-> "USER", message |-> userInput],
       [op |-> "createMessage", type |-> "AI", message |-> messageToUser] >>
        \o SaveCustomerOps(updatedSession)

-----------------------------------------------------------------------------
(* What the outside world may send: utterances, oracle answers, handler results *)

Utterances ==
    { <<" ", "J", "o">>,
      <<"a", "@", "b", ".", "c", "o">> }

OracleNodeIds(currentNode) ==
    DOMAIN nodes
        \cup {currentNode.listOfNextPossibleNodes[i] :
                i \in {j \in {1} : j <= Len(currentNode.listOfNextPossibleNodes)}}
        \cup {"no_such_node"}

\* what the oracle extracted and the reply it suggests: no inputs and no reply
\* at all, an empty reply, a reply, and inputs that meet the keys of other answers
OracleFindings ==
    { [userInputs |-> EmptyCtx, suggestedResponse |-> Undefined],
      [userInputs |-> EmptyCtx, suggestedResponse |-> <<"Nice to meet you!">>],
      [userInputs |-> [email |-> <<"x", "@", "y", ".", "c", "o">>],
       suggestedResponse |-> EmptyText],
      [userInputs |-> [email |-> <<"b", "@", "y", ".", "c", "o">>, name |-> <<"J", "o">>],
       suggestedResponse |-> <<"Nice to meet you!">>] }

OracleAnswers(currentNode) ==
    { [nextNodeId |-> id,
       userInputs |-> f.userInputs,
       confidence |-> 9,
       suggestedResponse |-> f.suggestedResponse] :
         id \in OracleNodeIds(currentNode), f \in OracleFindings }

HandlerResults ==
    { <<"Demo scheduled successfully">>,
      <<"Failed to schedule demo - invalid function call">> }

-----------------------------------------------------------------------------------------------------------------------------------------------------
(* The turns: one record for each run of the message handler *)

NoAnalysis ==
    [nextNodeId |-> UndefinedId,
     userInputs |-> EmptyCtx,
     confidence |-> 0,
     suggestedResponse |-> Undefined]

NoOutcome == [ok |-> FALSE, content |-> NoAnalysis]

\* what sessions.get answers for an absent key
NoSession ==
    [sessionId |-> 0,
     context |-> EmptyCtx,
     currentNodeId |-> UndefinedId,
     conversationHistory |-> <<>>]

NewTurn(c, userInput) ==
    [conn |-> c,
     userInput |-> userInput,
     input |-> sessions[c],           \* the reference sessions.get answered
     sessionAtCall |-> IF sessions[c] = 0 THEN NoSession
                       ELSE heap[sessions[c]],   \* what it referred to then
     pc |-> "start",                  \* "oracle", "handler", "replied", "error"
     oracleCalled |-> FALSE,
     outcome |-> NoOutcome,           \* what the completion call came to
     analysis |-> NoAnalysis,         \* what analyzeInput returned
     updated |-> 0,                   \* the reference of updatedSession
     handler |-> NoHandler,           \* the custom handler invoked
     handlerCalls |-> 0,              \* how many times one was invoked
     called |-> <<>>,                 \* the arguments of each invocation
     result |-> Undefined,            \* what the custom handler returned
     handlerThrew |-> FALSE,
     messageToUser |-> Undefined,
     error |-> "",
     persistence |-> <<>>,            \* the storage calls handleMessage started
     rejected |-> FALSE]              \* their Promise.all rejected

Frame(type, content) == [type |-> type, content |-> content]

Emit(c, frames) == [emitted EXCEPT ![c] = @ \o frames]

-----------------------------------------------------------------------------
(* WebSocketManager *)

\* welcomeNode?.getProcessedPromptTemplate?.(context): Node declares no such
\* method, so the optional call answers undefined
getProcessedPromptTemplate(node, context) == Undefined

\* the session the connection handler builds and pushes the welcome entry on
NewSession(c) ==
    [sessionId |-> c,
     context |-> EmptyCtx,
     currentNodeId |-> "welcome",
     conversationHistory |->
        << <<"AI: ">> \o Str(getProcessedPromptTemplate(getNode("welcome"), EmptyCtx)) >>]

\* io.on("connection")
Connect(c) ==
    /\ status[c] = "new"
    /\ status' = [status EXCEPT ![c] = "open"]
    /\ heap' = Append(heap, NewSession(c))
    /\ sessions' = [sessions EXCEPT ![c] = Len(heap) + 1]
    /\ emitted' = Emit(c, << Frame("connected", <<"Connected to sales agent">>),
                             Frame("message",
                                   getProcessedPromptTemplate(getNode("welcome"), EmptyCtx)) >>)
    /\ UNCHANGED <<nodes, turns>>

\* the server process is running
Up == \A c \in Conns : status[c] # "lost"

\* a mutant of Reject: the error is logged and the client is told nothing
RejectSilently(c, turn, why) ==
    /\ turns' = Append(turns, [turn EXCEPT !.pc = "error", !.error = why])
    /\ UNCHANGED <<heap, sessions, emitted>>

\* the catch block of the message handler, for an error thrown before any await
Reject(c, turn, why) ==
    /\ turns' = Append(turns, [turn EXCEPT !.pc = "error", !.error = why])
    /\ emitted' = Emit(c, << Frame("error", <<"Error processing your message">>) >>)
    /\ UNCHANGED <<heap, sessions>>

\* the catch block of the message handler, for an error thrown after an await
Fail(t, turn, why) ==
    /\ turns' = [turns EXCEPT ![t] = [turn EXCEPT !.pc = "error", !.error = why]]
    /\ emitted' = Emit(turn.conn, << Frame("error", <<"Error processing your message">>) >>)
    /\ UNCHANGED sessions

\* a mutant of ThrowInvalidNode: the session is put back at the start node and
\* the turn goes on from there
FallBackToWelcome(c, turn) ==
    /\ heap' = Append(heap, [heap[sessions[c]] EXCEPT !.currentNodeId = "welcome"])
    /\ sessions' = [sessions EXCEPT ![c] = Len(heap) + 1]
    /\ turns' = Append(turns, [turn EXCEPT !.pc = "oracle", !.oracleCalled = TRUE,
                                           !.input = Len(heap) + 1])
    /\ emitted' = emitted

\* processUserInput: if (!currentNode) throw new Error('Invalid node')
ThrowInvalidNode(c, turn) == Reject(c, turn, "Invalid node")

\* processUserInput: the call of AIService.analyzeInput, which the turn awaits
CallOracle(c, turn) ==
    /\ turns' = Append(turns, [turn EXCEPT !.pc = "oracle", !.oracleCalled = TRUE])
    /\ UNCHANGED <<heap, sessions, emitted>>

\* socket.on("message") down to the await of the oracle: sessions.get,
\* handleMessage, processUserInput's getNode and the call of analyzeInput
Message(c, userInput) ==
    /\ status[c] = "open"
    /\ Len(turns) < MaxTurns
    /\ LET turn == NewTurn(c, userInput)
       IN  IF sessions[c] = 0
           THEN Reject(c, turn, "Session not found")
           ELSE IF ~HasNode(heap[sessions[c]].currentNodeId)
                THEN ThrowInvalidNode(c, turn)
                ELSE CallOracle(c, turn)
    /\ UNCHANGED <<nodes, status>>

\* a mutant of Reply: handleMessage awaits the storage calls it started before
\* it returns
AwaitPersistence(t, turn, messageToUser, h) ==
    /\ turns' = [turns EXCEPT ![t] =
                    [turn EXCEPT !.pc = "persisting",
                                 !.messageToUser = messageToUser,
                                 !.persistence =
                                    PersistenceOps(turn.userInput, messageToUser,
                                                   h[turn.updated])]]
    /\ UNCHANGED <<sessions, emitted>>

\* a mutant of Reply: the manager keeps one session for all its connections
StoreForEveryone(t, turn, messageToUser, h) ==
    /\ turns' = [turns EXCEPT ![t] =
                    [turn EXCEPT !.pc = "replied",
                                 !.messageToUser = messageToUser,
                                 !.persistence =
                                    PersistenceOps(turn.userInput, messageToUser,
                                                   h[turn.updated])]]
    /\ sessions' = [c \in Conns |-> turn.updated]
    /\ emitted' = Emit(turn.conn, << Frame("message", messageToUser) >>)

\* a mutant of Reply: saveCustomerIfComplete is given the session the turn
\* was called with
ReplySavingInput(t, turn, messageToUser, h) ==
    /\ turns' = [turns EXCEPT ![t] =
                    [turn EXCEPT !.pc = "replied",
                                 !.messageToUser = messageToUser,
                                 !.persistence =
                                    PersistenceOps(turn.userInput, messageToUser,
                                                   h[turn.input])]]
    /\ sessions' = [sessions EXCEPT ![turn.conn] = turn.updated]
    /\ emitted' = Emit(turn.conn, << Frame("message", messageToUser) >>)

\* handleMessage after processUserInput returned, then the message handler's
\* sessions.set and socket.emit
Reply(t, turn, messageToUser, h) ==
    /\ turns' = [turns EXCEPT ![t] =
                    [turn EXCEPT !.pc = "replied",
                                 !.messageToUser = messageToUser,
                                 !.persistence =
                                    PersistenceOps(turn.userInput, messageToUser,
                                                   h[turn.updated])]]
    /\ sessions' = [sessions EXCEPT ![turn.conn] = turn.updated]
    /\ emitted' = Emit(turn.conn, << Frame("message", messageToUser) >>)

\* processUserInput from the oracle's answer to the await of the custom handler,
\* or to its return when the landed node has none
AfterOracle(t, outcome) ==
    /\ Up
    /\ turns[t].pc = "oracle"
    /\ LET turn == turns[t]
           currentSession == heap[turn.input]
           currentNode == getNode(currentSession.currentNodeId)
           analysis == analyzeInput(turn.userInput,
                                    currentNode.listOfNextPossibleNodes, outcome)
           updatedSession == UpdatedSession(currentSession, turn.userInput, analysis)
           updatedNode == getNode(updatedSession.currentNodeId)
           h == Allocate(heap, turn.input, updatedSession)
           next == [turn EXCEPT !.outcome = outcome,
                                !.analysis = analysis,
                                !.updated = Len(h)]
       IN  /\ heap' = h
           /\ IF HandlerOf(currentNode, updatedNode) # NoHandler
              THEN /\ turns' = [turns EXCEPT ![t] =
                                   [next EXCEPT
                                      !.pc = "handler",
                                      !.handler = HandlerOf(currentNode, updatedNode),
                                      !.handlerCalls = @ + 1,
                                      !.called = Append(@,
                                          customHandlerCall(turn.userInput,
                                                            currentSession,
                                                            updatedSession))]]
                   /\ UNCHANGED <<sessions, emitted>>
              ELSE Reply(t, next, analysis.suggestedResponse, h)
    /\ UNCHANGED <<nodes, status>>

\* the completion call came back with content that parsed
OracleResponds(t) ==
    /\ turns[t].pc = "oracle"
    /\ \E content \in OracleAnswers(getNode(heap[turns[t].input].currentNodeId)) :
          AfterOracle(t, [ok |-> TRUE, content |-> content])

\* the completion call threw, or came back with nothing that parsed
OracleFails(t) ==
    AfterOracle(t, NoOutcome)

\* the custom handler returned
HandlerReturns(t, result) ==
    /\ Up
    /\ turns[t].pc = "handler"
    /\ Reply(t, [turns[t] EXCEPT !.result = result],
             HandlerMessage(getNode(heap[turns[t].updated].currentNodeId),
                            turns[t].analysis, result),
             heap)
    /\ UNCHANGED <<nodes, heap, status>>

\* a mutant of CatchHandlerError: the error leaves processUserInput
RethrowHandlerError(t, turn) == Fail(t, turn, "Handler failed")

\* the catch block around the custom handler
CatchHandlerError(t, turn) == Reply(t, turn, HandlerFailureMessage, heap)

\* the custom handler threw
HandlerThrows(t) ==
    /\ Up
    /\ turns[t].pc = "handler"
    /\ CatchHandlerError(t, [turns[t] EXCEPT !.handlerThrew = TRUE])
    /\ UNCHANGED <<nodes, heap, status>>

\* socket.on("disconnect")
Disconnect(c) ==
    /\ status[c] = "open"
    /\ status' = [status EXCEPT ![c] = "closed"]
    /\ sessions' = [sessions EXCEPT ![c] = 0]
    /\ UNCHANGED <<nodes, heap, turns, emitted>>

\* the process ends on an uncaught error: the session map and every socket go
Terminate ==
    /\ status' = [c \in Conns |-> "lost"]
    /\ sessions' = [c \in Conns |-> 0]

\* a storage call of a turn failed: the Promise.all handleMessage left behind
\* rejects and nothing handles the rejection, so the runtime raises it as an
\* uncaught error and no handler is installed for that either.  (A runtime
\* that only reports an unhandled rejection changes nothing here: no step.)
PersistenceFails(t) ==
    /\ Up
    /\ turns[t].pc = "replied"
    /\ turns' = [turns EXCEPT ![t].rejected = TRUE]
    /\ Terminate
    /\ UNCHANGED <<nodes, heap, emitted>>

-----
(* The server with the graph of NodeService.initializeNodes *)

Init ==
    /\ nodes = initializeNodes
    /\ heap = <<>>
    /\ sessions = [c \in Conns |-> 0]
    /\ status = [c \in Conns |-> "new"]
    /\ turns = <<>>
    /\ emitted = [c \in Conns |-> <<>>]

Next ==
    \/ \E c \in Conns : Connect(c)
    \/ \E c \in Conns, u \in Utterances : Message(c, u)
    \/ \E t \in DOMAIN turns : OracleResponds(t)
    \/ \E t \in DOMAIN turns : OracleFails(t)
    \/ \E t \in DOMAIN turns : PersistenceFails(t)
    \/ \E c \in Conns : Disconnect(c)

Spec == Init /\ [][Next]_vars

\* the same server when no completion call is ever answered: what is left is
\* what the server does by itself and on its clients' events
NextUnanswered ==
    \/ \E c \in Conns : Connect(c)
    \/ \E c \in Conns, u \in Utterances : Message(c, u)
    \/ \E c \in Conns : Disconnect(c)

SpecUnanswered == Init /\ [][NextUnanswered]_vars /\ WF_vars(NextUnanswered)

\* the same server when every completion call fails and the first message is
\* any text of at most ExtractMaxLen characters: each turn goes through the
\* fallback and its extraction
ExtractMessages == UNION { [1..n -> ExtractChars] : n \in 0..ExtractMaxLen }

NextFallback ==
    \/ \E c \in Conns : Connect(c)
    \/ /\ turns = <<>>
       /\ \E c \in Conns, u \in ExtractMessages : Message(c, u)
    \/ \E t \in DOMAIN turns : OracleFails(t)

SpecFallback == Init /\ [][NextFallback]_vars

-----------------------------------------------------------------------------
(* The server with custom nodes registered: the graph of initializeNodes and  *)
(* two nodes built by createCustomNode, one for each handler of the provider  *)

customNodes ==
    [id \in {"welcome", "collect_name",
             "question_and_answer_node_for_product_details", "schedule_demo"} |->
        IF id = "question_and_answer_node_for_product_details"
        THEN [createCustomNode(id, <<"schedule_demo", "welcome">>, "getProductDetails")
                EXCEPT !.consumeNodeResponse = TRUE]
        ELSE IF id = "schedule_demo"
        THEN createCustomNode(id, <<"welcome">>, "scheduleDemo")
        ELSE initializeNodes[id]]

InitCustom ==
    /\ nodes = customNodes
    /\ heap = <<>>
    /\ sessions = [c \in Conns |-> 0]
    /\ status = [c \in Conns |-> "new"]
    /\ turns = <<>>
    /\ emitted = [c \in Conns |-> <<>>]

NextCustom ==
    \/ \E c \in Conns : Connect(c)
    \/ \E c \in Conns, u \in Utterances : Message(c, u)
    \/ \E t \in DOMAIN turns : OracleResponds(t)
    \/ \E t \in DOMAIN turns : OracleFails(t)
    \/ \E t \in DOMAIN turns, result \in HandlerResults : HandlerReturns(t, result)
    \/ \E t \in DOMAIN turns : HandlerThrows(t)
    \/ \E t \in DOMAIN turns : PersistenceFails(t)
    \/ \E c \in Conns : Disconnect(c)

SpecCustom == InitCustom /\ [][NextCustom]_vars

-----------------------------------------------------------------------------
(* Properties *)

\* the turns whose processUserInput has built updatedSession
Analysed == {t \in DOMAIN turns : turns[t].updated # 0}

\* the turns that returned a reply to the message handler
Replied == {t \in DOMAIN turns : turns[t].pc = "replied"}

FirstCandidate(session) == getNode(session.currentNodeId).listOfNextPossibleNodes[1]

\* C1: a turn that returns leaves the session object it was given as it was at
\* the call, and the history of the session it returns is two entries longer.
C1_InputKeptHistoryPlusTwo ==
    \A t \in Replied :
        /\ heap[turns[t].input] = turns[t].sessionAtCall
        /\ turns[t].updated # turns[t].input
        /\ Len(heap[turns[t].updated].conversationHistory)
              = Len(turns[t].sessionAtCall.conversationHistory) + 2

C1_Witness ==
    \E t \in Replied :
        /\ Len(turns[t].sessionAtCall.conversationHistory) = 3
        /\ Len(heap[turns[t].updated].conversationHistory) = 5

\* C2: when the oracle answers with a node id the graph does not hold, the
\* returned session is at the first candidate of the current node, never at the
\* id the oracle gave.
C2_UnknownIdFallsBack ==
    \A t \in Analysed :
        (turns[t].outcome.ok /\ ~HasNode(turns[t].outcome.content.nextNodeId))
            => /\ heap[turns[t].updated].currentNodeId
                    = FirstCandidate(turns[t].sessionAtCall)
               /\ heap[turns[t].updated].currentNodeId
                    # turns[t].outcome.content.nextNodeId

\* C3: every session in the session map is at a node the graph holds.
C3_StoredSessionsAtNodes ==
    \A c \in Conns :
        sessions[c] # 0 => HasNode(heap[sessions[c]].currentNodeId)

\* C4: the context of the returned session is the union of the input context
\* and the analysis's userInputs, a key of userInputs carrying the userInputs
\* value and a key of the old context alone keeping its value.
C4_ContextRightBiasedUnion ==
    \A t \in Analysed :
        LET old == turns[t].sessionAtCall.context
            new == turns[t].analysis.userInputs
            got == heap[turns[t].updated].context
        IN  /\ DOMAIN got = DOMAIN old \cup DOMAIN new
            /\ \A k \in DOMAIN new : got[k] = new[k]
            /\ \A k \in DOMAIN old \ DOMAIN new : got[k] = old[k]

C4_Witness ==
    \E t \in Replied :
        LET old == turns[t].sessionAtCall.context
            new == turns[t].analysis.userInputs
        IN  /\ \E k \in DOMAIN old \cap DOMAIN new : old[k] # new[k]
            /\ DOMAIN old \ DOMAIN new # {}

\* C5: when the custom handler of the landed node throws, the turn still
\* returns a reply, the apology; the returned session is at the node the
\* analysis named, and no error reaches the message handler.
C5_HandlerFailureContained ==
    \A t \in DOMAIN turns :
        turns[t].handlerThrew
            => /\ turns[t].pc = "replied"
               /\ turns[t].error = ""
               /\ turns[t].messageToUser = HandlerApology
               /\ heap[turns[t].updated].currentNodeId = turns[t].analysis.nextNodeId
               /\ \E i \in DOMAIN emitted[turns[t].conn] :
                     emitted[turns[t].conn][i] = Frame("message", HandlerApology)

C5_Witness ==
    \E t \in DOMAIN turns :
        /\ turns[t].handlerThrew
        /\ turns[t].outcome.ok
        /\ turns[t].handler = "scheduleDemo"
        /\ turns[t].analysis.suggestedResponse = <<"Nice to meet you!">>

RejectedNow ==
    /\ Len(turns') = Len(turns) + 1
    /\ turns'[Len(turns')].pc = "error"

\* C7: a turn for a session whose current node the graph does not hold fails
\* with an error and without a call of the oracle; it is not restarted from
\* the welcome node, and the session map is left as it was.
C7_InvalidNodeRejected ==
    /\ [](\A t \in DOMAIN turns :
            (turns[t].input # 0 /\ ~HasNode(turns[t].sessionAtCall.currentNodeId))
                => /\ turns[t].pc = "error"
                   /\ turns[t].error = "Invalid node"
                   /\ ~turns[t].oracleCalled
                   /\ turns[t].updated = 0)
    /\ [][RejectedNow => sessions' = sessions /\ heap' = heap]_vars

C7_Witness ==
    \E t \in DOMAIN turns :
        /\ turns[t].pc = "error"
        /\ turns[t].error = "Invalid node"
        /\ sessions[turns[t].conn] = turns[t].input

\* C8: a message for a session the session map holds is answered with a reply,
\* never with an error frame, whatever the turns before it came to.
C8_NoTurnRejected ==
    \A t \in DOMAIN turns :
        turns[t].input # 0 => turns[t].pc # "error"

\* the ids the nodes of ids list as successors
Successors(ids) ==
    UNION { {nodes[id].listOfNextPossibleNodes[i] :
                i \in 1..Len(nodes[id].listOfNextPossibleNodes)} :
            id \in ids \cap DOMAIN nodes }

\* the ids reachable from ids in at most n steps along listOfNextPossibleNodes
RECURSIVE ReachableIn(_, _)
ReachableIn(ids, n) ==
    IF n = 0 THEN ids ELSE ReachableIn(ids \cup Successors(ids), n - 1)

\* C9: every id a node lists as a successor is a node of the graph, and so is
\* every id reachable from the welcome node.
C9_NoDanglingSuccessors ==
    /\ \A id \in DOMAIN nodes :
          \A i \in 1..Len(nodes[id].listOfNextPossibleNodes) :
              nodes[id].listOfNextPossibleNodes[i] \in DOMAIN nodes
    /\ ReachableIn({"welcome"}, Cardinality(DOMAIN nodes) + 1) \subseteq DOMAIN nodes

\* C10: the key set of a connection's stored context never shrinks from one
\* state to the next.
C10_StoredContextKeysGrow ==
    [][\A c \in Conns :
          (sessions[c] # 0 /\ sessions'[c] # 0)
              => DOMAIN heap[sessions[c]].context
                    \subseteq DOMAIN heap'[sessions'[c]].context]_vars

\* the first n entries of a history
Prefix(history, n) == SubSeq(history, 1, n)

\* C11: the history of the session a turn returns starts with the whole history
\* the turn was given, entry for entry, and goes on with exactly two entries:
\* first the user's, "User: " and the utterance, then the reply's, "AI: " and
\* the reply the oracle suggested.
C11_HistoryAppendOnly ==
    \A t \in Analysed :
        LET before == turns[t].sessionAtCall.conversationHistory
            after == heap[turns[t].updated].conversationHistory
        IN  /\ Len(after) = Len(before) + 2
            /\ Prefix(after, Len(before)) = before
            /\ after[Len(before) + 1] = <<"User: ">> \o turns[t].userInput
            /\ after[Len(before) + 2]
                  = <<"AI: ">> \o OrEmpty(turns[t].analysis.suggestedResponse)

C11_Witness ==
    \E t \in Replied :
        /\ Len(turns[t].sessionAtCall.conversationHistory) = 3
        /\ turns[t].sessionAtCall.conversationHistory[3] = <<"AI: ", "Nice to meet you!">>
        /\ turns[t].outcome.ok
        /\ turns[t].analysis.suggestedResponse = EmptyText

\* C12: when a storage call of a turn has failed, the turn has still replied
\* without an error, and the failure has cost the connection nothing: it is
\* still served, and while it is open the session map holds its session.
C12_PersistenceFailureContained ==
    \A t \in DOMAIN turns :
        turns[t].rejected
            => /\ turns[t].pc = "replied"
               /\ turns[t].error = ""
               /\ status[turns[t].conn] # "lost"
               /\ status[turns[t].conn] = "open" => sessions[turns[t].conn] # 0

\* the value of a key of a context, undefined when the key is absent
Field(context, key) == IF key \in DOMAIN context THEN context[key] ELSE Undefined

\* the customer saves among the storage calls a turn started
Saves(t) ==
    {i \in DOMAIN turns[t].persistence : turns[t].persistence[i].op = "saveCustomer"}

\* C13: a turn that returns starts a customer save only when the context of
\* the session it returns holds a non-empty name and a non-empty email; when
\* either is missing or empty the turn starts none.
C13_SaveOnlyWhenComplete ==
    \A t \in Replied :
        LET context == heap[turns[t].updated].context
        IN  Saves(t) # {}
                => /\ Truthy(Field(context, "name"))
                   /\ Truthy(Field(context, "email"))

C13_Witness ==
    /\ \E t \in Replied :
          /\ Truthy(Field(heap[turns[t].updated].context, "name"))
          /\ ~Truthy(Field(heap[turns[t].updated].context, "email"))
          /\ Saves(t) = {}
    /\ \E t \in Replied : Saves(t) # {}

\* C14: a turn that is given a context without a name or without an email and
\* returns one with both starts exactly one customer save, and that save
\* carries the session id and the name and email of the returned context.
C14_CompletingTurnSavesOnce ==
    \A t \in Replied :
        LET old == turns[t].sessionAtCall.context
            new == heap[turns[t].updated].context
        IN  (/\ ~(Truthy(Field(old, "name")) /\ Truthy(Field(old, "email")))
             /\ Truthy(Field(new, "name")) /\ Truthy(Field(new, "email")))
                => /\ Cardinality(Saves(t)) = 1
                   /\ \A i \in Saves(t) :
                         /\ turns[t].persistence[i].sessionId = turns[t].conn
                         /\ turns[t].persistence[i].name = new["name"]
                         /\ turns[t].persistence[i].email = new["email"]

C14_Witness ==
    \E t \in Replied :
        /\ DOMAIN turns[t].sessionAtCall.context = {"email"}
        /\ DOMAIN turns[t].analysis.userInputs = {"name"}
        /\ Cardinality(Saves(t)) = 1

\* C15: a connection that has sent nothing yet has a session at the welcome
\* node with an empty context and an empty history, has been sent the welcome
\* message, and no turn, so no oracle call, has been made for it.
C15_ConnectCreatesEmptySession ==
    \A c \in Conns :
        (status[c] = "open" /\ \A t \in DOMAIN turns : turns[t].conn # c)
            => /\ sessions[c] # 0
               /\ heap[sessions[c]].currentNodeId = "welcome"
               /\ heap[sessions[c]].context = EmptyCtx
               /\ heap[sessions[c]].conversationHistory = <<>>
               /\ \E i \in DOMAIN emitted[c] : emitted[c][i].type = "message"

\* C16: the session map holds no entry for a connection that has disconnected.
C16_NoSessionAfterDisconnect ==
    \A c \in Conns : status[c] = "closed" => sessions[c] = 0

\* the step starts a run of connection c's message handler or takes one on
TurnStepOf(c) ==
    \/ /\ Len(turns') = Len(turns) + 1
       /\ turns'[Len(turns')].conn = c
    \/ \E t \in DOMAIN turns :
          /\ turns[t].conn = c
          /\ turns'[t].pc # turns[t].pc

\* a session without the id of its connection
Anonymous(session) == [session EXCEPT !.sessionId = 0]

\* C17: a step of a turn of one connection leaves every other connection's
\* entry of the session map and every session object of another connection as
\* they were; and two turns given the same utterance, sessions equal but for
\* the id, the same oracle outcome and the same handler outcome return the
\* same reply and sessions equal but for the id, whatever the other
\* connections did meanwhile.
C17_TurnsIsolated ==
    /\ [][\A b \in Conns :
            TurnStepOf(b)
                => /\ \A a \in Conns \ {b} : sessions'[a] = sessions[a]
                   /\ \A r \in DOMAIN heap :
                         heap[r].sessionId # b => heap'[r] = heap[r]
                   /\ \A r \in DOMAIN heap' \ DOMAIN heap :
                         heap'[r].sessionId = b]_vars
    /\ [](\A t1, t2 \in Replied :
            (/\ turns[t1].userInput = turns[t2].userInput
             /\ Anonymous(turns[t1].sessionAtCall) = Anonymous(turns[t2].sessionAtCall)
             /\ turns[t1].outcome = turns[t2].outcome
             /\ turns[t1].result = turns[t2].result
             /\ turns[t1].handlerThrew = turns[t2].handlerThrew)
                => /\ turns[t1].messageToUser = turns[t2].messageToUser
                   /\ Anonymous(heap[turns[t1].updated])
                         = Anonymous(heap[turns[t2].updated]))

C17_Witness ==
    \E t1, t2 \in Replied :
        /\ turns[t1].conn # turns[t2].conn
        /\ turns[t1].updated < turns[t2].updated
        /\ sessions[turns[t1].conn] = turns[t1].updated
        /\ sessions[turns[t2].conn] = turns[t2].updated
        /\ turns[t1].userInput = turns[t2].userInput
        /\ turns[t1].outcome = turns[t2].outcome
        /\ turns[t1].outcome.ok
        /\ DOMAIN heap[turns[t1].updated].context = {"email", "name"}

\* C18: a turn that is waiting for the oracle's answer does not wait for ever:
\* also when no answer ever comes it eventually returns its reply.
C18_OracleCallBounded ==
    \A t \in 1..MaxTurns :
        (t \in DOMAIN turns /\ turns[t].pc = "oracle")
            ~> (t \in DOMAIN turns /\ turns[t].pc = "replied")

\* the last entry of the history of the session turn t returned
ReplyEntry(t) ==
    heap[turns[t].updated].conversationHistory[
        Len(heap[turns[t].updated].conversationHistory)]

\* C19: the reply entry a turn appends to the history is "AI: " and the text
\* the turn returns as its reply (no text at all counting as the empty text).
C19_HistoryCarriesReply ==
    \A t \in Replied :
        ReplyEntry(t) = <<"AI: ">> \o OrEmpty(turns[t].messageToUser)

\* C20: a turn that lands on a node without a handler replies with the
\* oracle's suggested reply.  A turn whose handler returned replies with the
\* handler's text when the landed node has consumeNodeResponse set; otherwise
\* with the oracle's suggested reply, unless that is missing or empty, and
\* then with the handler's text.
C20_ReplySelection ==
    \A t \in Replied :
        LET updatedNode == getNode(heap[turns[t].updated].currentNodeId)
            suggested == turns[t].analysis.suggestedResponse
        IN  IF updatedNode.customHandlerFunction = NoHandler
            THEN turns[t].messageToUser = suggested
            ELSE ~turns[t].handlerThrew
                    => turns[t].messageToUser
                         = IF updatedNode.consumeNodeResponse THEN turns[t].result
                           ELSE IF Truthy(suggested) THEN suggested
                           ELSE turns[t].result

C20_Witness ==
    /\ \E t \in Replied :
          /\ getNode(heap[turns[t].updated].currentNodeId).consumeNodeResponse
          /\ Truthy(turns[t].analysis.suggestedResponse)
          /\ turns[t].messageToUser = <<"Demo scheduled successfully">>
    /\ \E t \in Replied :
          /\ turns[t].handler = "scheduleDemo"
          /\ turns[t].analysis.suggestedResponse = EmptyText
          /\ turns[t].messageToUser
                = <<"Failed to schedule demo - invalid function call">>

\* the turns of connection c
TurnsOf(c) == {t \in DOMAIN turns : turns[t].conn = c}

\* the turns that are awaiting the oracle or a custom handler
InFlight == {t \in DOMAIN turns : turns[t].pc \in {"oracle", "handler"}}

\* C21: no connection has two turns in flight at once.
C21_OneTurnInFlight ==
    \A c \in Conns : Cardinality(TurnsOf(c) \cap InFlight) <= 1

\* C22: when every message of an open connection has been answered with a
\* reply, the history of its stored session holds the entries it was created
\* with and two entries for each of its turns, and its context holds every
\* key of the userInputs of each of its turns.
C22_NoTurnEffectLost ==
    \A c \in Conns :
        (/\ status[c] = "open"
         /\ sessions[c] # 0
         /\ TurnsOf(c) \subseteq Replied)
            => /\ Len(heap[sessions[c]].conversationHistory)
                    = Len(NewSession(c).conversationHistory)
                        + 2 * Cardinality(TurnsOf(c))
               /\ \A t \in TurnsOf(c) :
                     DOMAIN turns[t].analysis.userInputs
                        \subseteq DOMAIN heap[sessions[c]].context

\* C23: no handler has been invoked in a turn that still awaits the oracle;
\* a handler that was invoked was given the utterance, the context of the
\* turn's session merged with the analysis's userInputs, the history with the
\* turn's two entries already at its end, and the session the turn returns.
C23_HandlerAfterMerge ==
    \A t \in DOMAIN turns :
        /\ turns[t].pc \in {"start", "oracle"} => turns[t].handlerCalls = 0
        /\ turns[t].handlerCalls > 0 => t \in Analysed /\ turns[t].oracleCalled
        /\ \A i \in DOMAIN turns[t].called :
              LET call == turns[t].called[i]
                  given == turns[t].sessionAtCall
              IN  /\ call.input = turns[t].userInput
                  /\ call.context = Spread(given.context, turns[t].analysis.userInputs)
                  /\ call.history
                        = given.conversationHistory
                            \o << <<"User: ">> \o turns[t].userInput,
                                  <<"AI: ">> \o OrEmpty(turns[t].analysis.suggestedResponse) >>
                  /\ call.session = heap[turns[t].updated]

C23_Witness ==
    \E t \in DOMAIN turns :
        /\ turns[t].handlerCalls = 1
        /\ DOMAIN turns[t].sessionAtCall.context = {"email"}
        /\ DOMAIN turns[t].called[1].context = {"email", "name"}
        /\ turns[t].called[1].context["email"] # turns[t].sessionAtCall.context["email"]
        /\ Len(turns[t].called[1].history) = 5

\* C25: a turn invokes a custom handler exactly when the node of the
\* currentNodeId it returns declares one, invokes that node's handler, whatever
\* the node it started from declares, and invokes it once; a turn that has not
\* got its analysis yet has invoked none.
C25_HandlerOfLandedNodeOnce ==
    \A t \in DOMAIN turns :
        IF t \in Analysed
        THEN LET landed == getNode(heap[turns[t].updated].currentNodeId)
             IN  /\ turns[t].handlerCalls <= 1
                 /\ turns[t].handlerCalls = 1 <=> landed.customHandlerFunction # NoHandler
                 /\ turns[t].handler = landed.customHandlerFunction
        ELSE turns[t].handlerCalls = 0 /\ turns[t].handler = NoHandler

C25_Witness ==
    /\ \E t \in Replied :
          /\ getNode(turns[t].sessionAtCall.currentNodeId).customHandlerFunction
                = "getProductDetails"
          /\ turns[t].handler = "scheduleDemo"
          /\ turns[t].handlerCalls = 1
    /\ \E t \in Replied :
          /\ turns[t].sessionAtCall.currentNodeId = "welcome"
          /\ turns[t].handler = "getProductDetails"

\* the step in which turn t starts its storage calls
StartsPersistence(t) ==
    /\ turns[t].persistence = <<>>
    /\ turns'[t].persistence # <<>>

\* C24: the step in which a turn starts its storage calls is the step in which
\* it returns: in the state that step leads to, with none of the calls
\* completed, the turn has replied, its reply is the last frame emitted to its
\* connection and the session it returned is the one stored.
C24_ReplyBeforePersistence ==
    [][\A t \in DOMAIN turns :
          StartsPersistence(t)
              => /\ turns'[t].pc = "replied"
                 /\ ~turns'[t].rejected
                 /\ emitted'[turns[t].conn]
                       = Append(emitted[turns[t].conn],
                                Frame("message", turns'[t].messageToUser))
                 /\ sessions'[turns[t].conn] = turns'[t].updated]_vars

C24_Witness ==
    \E t \in Replied :
        /\ Len(turns[t].persistence) = 3
        /\ ~turns[t].rejected
        /\ Up
        /\ emitted[turns[t].conn][Len(emitted[turns[t].conn])]
              = Frame("message", <<"Nice to meet you!">>)

\* C26: when the oracle names a node the graph holds that is not among the
\* candidates of the current node, the session the turn returns is at that
\* node, and the analysis is the oracle's, not the fallback's.
C26_NonCandidateAccepted ==
    \A t \in Analysed :
        LET named == turns[t].outcome.content.nextNodeId
            candidates ==
                getNode(turns[t].sessionAtCall.currentNodeId).listOfNextPossibleNodes
        IN  (turns[t].outcome.ok /\ HasNode(named) /\ named \notin Members(candidates))
                => /\ heap[turns[t].updated].currentNodeId = named
                   /\ turns[t].analysis = turns[t].outcome.content

C26_Witness ==
    \E t \in Replied :
        /\ turns[t].outcome.ok
        /\ turns[t].sessionAtCall.currentNodeId = "welcome"
        /\ "collect_name" \notin Members(getNode("welcome").listOfNextPossibleNodes)
        /\ heap[turns[t].updated].currentNodeId = "collect_name"
        /\ sessions[turns[t].conn] = turns[t].updated

\* the frames of a type emitted to connection c
FramesOf(c, type) == {i \in DOMAIN emitted[c] : emitted[c][i].type = type}

\* the turns of connection c that ended that way
Ended(c, pc) == {t \in TurnsOf(c) : turns[t].pc = pc}

\* C27: each connection has been sent, besides the two frames of its connect,
\* one "message" frame for each of its turns that replied, one "error" frame
\* for each of its turns that failed and nothing for a turn still in flight;
\* each turn called the oracle at most once; the step in which a turn replies
\* emits that one frame, the reply, and stores the session the turn returned,
\* and the step in which a turn fails emits one "error" frame and leaves the
\* session map as it was.
C27_OneFramePerMessage ==
    /\ [](\A c \in Conns :
            /\ Cardinality(FramesOf(c, "message"))
                  = Cardinality(Ended(c, "replied"))
                      + Cardinality(FramesOf(c, "connected"))
            /\ Cardinality(FramesOf(c, "connected"))
                  = (IF \E r \in DOMAIN heap : heap[r].sessionId = c THEN 1 ELSE 0)
            /\ Cardinality(FramesOf(c, "error")) = Cardinality(Ended(c, "error"))
            /\ Len(emitted[c])
                  = Cardinality(FramesOf(c, "message"))
                      + Cardinality(FramesOf(c, "error"))
                      + Cardinality(FramesOf(c, "connected"))
            /\ \A t \in Ended(c, "error") : turns[t].updated = 0)
    /\ [][\A t \in DOMAIN turns' :
            LET c == turns'[t].conn
                before == IF t \in DOMAIN turns THEN turns[t].pc ELSE "start"
            IN  /\ (before # "replied" /\ turns'[t].pc = "replied")
                      => /\ emitted'[c]
                              = Append(emitted[c],
                                       Frame("message", turns'[t].messageToUser))
                         /\ sessions'[c] = turns'[t].updated
                /\ (before # "error" /\ turns'[t].pc = "error")
                      => /\ emitted'[c]
                              = Append(emitted[c],
                                       Frame("error", <<"Error processing your message">>))
                         /\ sessions' = sessions]_vars

C27_Witness ==
    \E c \in Conns :
        /\ Cardinality(Ended(c, "replied")) = 1
        /\ Cardinality(Ended(c, "error")) = 1
        /\ Len(emitted[c]) = 4
        /\ emitted[c][3].type = "message"
        /\ emitted[c][4].type = "error"
        /\ \E t \in Ended(c, "replied") : sessions[c] = turns[t].updated

\* w is shaped like an email address: one or more characters of a local part,
\* an "@", one or more characters of a domain, a "." and two or more letters
EmailShaped(w) ==
    \E a \in 2..Len(w), d \in 4..(Len(w) - 2) :
        /\ a + 1 < d
        /\ w[a] = "@"
        /\ w[d] = "."
        /\ \A k \in 1..(a - 1) : w[k] \in LocalChar
        /\ \A k \in (a + 1)..(d - 1) : w[k] \in DomainChar
        /\ \A k \in (d + 1)..Len(w) : w[k] \in Letter

\* the places <<i, j>> of message m that hold an email-shaped text
EmailPlaces(m) ==
    {p \in (1..Len(m)) \X (1..Len(m)) :
        p[1] <= p[2] /\ EmailShaped(Slice(m, p[1], p[2]))}

\* the first of them, taken as far as it goes
FirstEmailPlace(m) ==
    CHOOSE p \in EmailPlaces(m) :
        \A q \in EmailPlaces(m) :
            p[1] < q[1] \/ (p[1] = q[1] /\ q[2] <= p[2])

\* text is message without the white space at its ends, and is not empty
TrimmedFrom(text, message) ==
    \E i, j \in 1..Len(message) :
        /\ i <= j
        /\ text = Slice(message, i, j)
        /\ message[i] \notin WhiteSpace /\ message[j] \notin WhiteSpace
        /\ \A k \in 1..Len(message) : (k < i \/ k > j) => message[k] \in WhiteSpace

\* C28: the userInputs of a turn whose oracle call failed are {email: the
\* first email-shaped text of the message} when the message holds one,
\* {name: the message trimmed} when it holds none and is not blank, and {}
\* when it is empty or all white space; never an email together with a name.
C28_FallbackExtraction ==
    \A t \in Analysed :
        ~turns[t].outcome.ok
            => LET m == turns[t].userInput
                   got == turns[t].analysis.userInputs
               IN  /\ ~({"email", "name"} \subseteq DOMAIN got)
                   /\ IF EmailPlaces(m) # {}
                      THEN /\ DOMAIN got = {"email"}
                           /\ got["email"]
                                = Slice(m, FirstEmailPlace(m)[1], FirstEmailPlace(m)[2])
                      ELSE IF \E k \in 1..Len(m) : m[k] \notin WhiteSpace
                           THEN /\ DOMAIN got = {"name"}
                                /\ TrimmedFrom(got["name"], m)
                           ELSE got = EmptyCtx

C28_Witness ==
    \E t \in Analysed :
        /\ ~turns[t].outcome.ok
        /\ turns[t].userInput = <<" ", "1", "@", "1", ".", "a", "a">>
        /\ turns[t].analysis.userInputs = [email |-> <<"1", "@", "1", ".", "a", "a">>]

=============================================================================
